---- MODULE Spec2Model ----
(***************************************************************************)
(* A model of sensor_mmWave.py: the presence/no-motion monitor that reads  *)
(* lines "SJYBSS,<status>" from a serial radar sensor and raises a tiered  *)
(* (Initial, Critical) alert when a present subject shows no movement.     *)
(*                                                                         *)
(* Time is counted in clock ticks, TicksPerSec ticks to the second, so     *)
(* that the sub-second readings of time.time() and the truncation int()    *)
(* of the elapsed seconds are both represented.                            *)
(*                                                                         *)
(* A line read from the serial port is a sequence of symbols; the symbol   *)
(* "SJYBSS" stands for the six characters of the marker, every other       *)
(* symbol is one character.                                                *)
(***************************************************************************)
EXTENDS Integers, Sequences, FiniteSets

VARIABLES
    pc,                       \* where main() is: "setup", "loop", "stopped",
                              \* "crashed", "exited", "aborted", "no_sensor",
                              \* "interrupted", "unreleased"
    ser_open,                 \* the serial port is open
    close_count,              \* number of ser.close() calls
    now,                      \* time.time(), in ticks
    iterations,               \* loop iterations executed so far
    data,                     \* the line the last iteration read, decoded and
                              \* stripped; NoLine when nothing was waiting
    current_time,             \* local current_time; Unbound until first assigned
    last_movement_time,
    last_presence_time,
    presence_detected,
    initial_alarm_sent,
    critical_alarm_sent,
    last_critical_alert_time,
    alerts,                   \* every alert handed to send_email_alert so far
    log,                      \* messages logged by the last iteration, in order
    delivering,               \* the loop is inside send_email_alert (lines 139,
                              \* 154), sending the last alert of alerts
    email_configured          \* EMAIL_SENDER, EMAIL_PASSWORD and EMAIL_RECIPIENT
                              \* are all set (lines 30-32)

vars == <<pc, ser_open, close_count, now, iterations, data,
          current_time, last_movement_time, last_presence_time,
          presence_detected, initial_alarm_sent, critical_alarm_sent,
          last_critical_alert_time, alerts, log, delivering,
          email_configured>>

session == <<last_movement_time, last_presence_time, presence_detected,
             initial_alarm_sent, critical_alarm_sent, last_critical_alert_time>>

-----------------------------------------------------------------------------
(* Bounds of the model *)

TicksPerSec == 2              \* clock resolution
MaxIter == 4                  \* loop iterations explored
StartTime == 1000             \* time.time() at start-up, in seconds
MaxSendSecs == 1              \* longest a call of send_email_alert takes

(* Program constants, in seconds *)

INITIAL_ALARM_THRESHOLD == 60
NO_MOTION_THRESHOLD == 300
CRITICAL_COOLDOWN == 600

Secs(n) == n * TicksPerSec

\* int(x) of a non-negative duration x given in ticks: whole seconds
IntSeconds(ticks) == ticks \div TicksPerSec

\* current_time before its first assignment (line 100 not yet executed)
Unbound == -1

\* Time that passes between the end of one iteration and the next one
\* (the sleep of line 162, iterations that are not told apart): a tick, the
\* Initial threshold, just over the no-motion threshold, just under the
\* cooldown
Deltas == {1,
           Secs(INITIAL_ALARM_THRESHOLD),
           Secs(NO_MOTION_THRESHOLD) + 1,
           Secs(CRITICAL_COOLDOWN) - 1}

\* Time a call of send_email_alert takes (lines 50-78)
SendTimes == {0, Secs(MaxSendSecs)}

-----------------------------------------------------------------------------
(* Lines on the wire and their parsing *)

MARKER == "SJYBSS"

\* what readline() returns, line terminator included
RawLines ==
    { <<MARKER, ",", "1", "\n">>,                  \* SJYBSS,1
      <<MARKER, ",", "0", "\r", "\n">>,            \* SJYBSS,0
      <<" ", "", MARKER, ",", "1", "U+2003", "", "\n">>,
                                                    \* inside whitespace
      <<MARKER, ",", "2", "\n">>,                  \* marker with another status
      <<"x", ",", "1", "\n">> }                    \* another tag

\* the characters str.strip() removes: space, tab, line feed, carriage
\* return, form feed, then vertical tab (0x0b), the separators 0x1c to
\* 0x1f, next line (0x85) and the no-break space (0xa0), each written as
\* the character itself; and the seventeen Unicode spaces above 0xff, each
\* a symbol named after its code point
Whitespace == {" ", "\t", "\n", "\r", "\f",
               "", "", "", "", "", "", " ",
               "U+1680", "U+2000", "U+2001", "U+2002", "U+2003", "U+2004",
               "U+2005", "U+2006", "U+2007", "U+2008", "U+2009", "U+200A",
               "U+2028", "U+2029", "U+202F", "U+205F", "U+3000"}

\* data of an iteration that found nothing waiting (line 94 false)
NoLine == <<"nothing waiting">>

RECURSIVE LStrip(_)
LStrip(s) == IF s # << >> /\ Head(s) \in Whitespace THEN LStrip(Tail(s)) ELSE s

RECURSIVE RStrip(_)
RStrip(s) == IF s # << >> /\ s[Len(s)] \in Whitespace
             THEN RStrip(SubSeq(s, 1, Len(s) - 1)) ELSE s

\* str.strip()
Strip(s) == RStrip(LStrip(s))

\* data.startswith("SJYBSS,")
StartsWithMarker(d) == Len(d) >= 2 /\ d[1] = MARKER /\ d[2] = ","

\* the field that ends before the first "," at or after position i
RECURSIVE FieldFrom(_, _)
FieldFrom(d, i) == IF i > Len(d) \/ d[i] = "," THEN << >>
                   ELSE <<d[i]>> \o FieldFrom(d, i + 1)

\* data.split(",")[1] for a line that starts with the marker and a comma
StatusOf(d) == FieldFrom(d, 3)

-----------------------------------------------------------------------------
(* The monitoring session: the six locals of vital_sign_monitoring *)

Session(pd, lmt, lpt, ias, cas, lcat) ==
    [presence_detected |-> pd, last_movement_time |-> lmt,
     last_presence_time |-> lpt, initial_alarm_sent |-> ias,
     critical_alarm_sent |-> cas, last_critical_alert_time |-> lcat]

\* the session held by the state variables
Current == Session(presence_detected, last_movement_time, last_presence_time,
                   initial_alarm_sent, critical_alarm_sent,
                   last_critical_alert_time)

\* lines 83-88, executed at time t
NewSession(t) == Session(FALSE, t, t, FALSE, FALSE, 0)

\* a variant that takes the movement time only when presence begins
MovementTime_OnArrivalOnly(pd, lmt, t) == IF pd THEN lmt ELSE t

\* line 111: every status-1 line counts as movement
MovementTime(pd, lmt, t) == t

\* a variant that resets the flags only when both are set
FlagsAfterMovement_BothSet(ias, cas) ==
    IF ias /\ cas THEN <<FALSE, FALSE>> ELSE <<ias, cas>>

\* lines 114-117: movement resets the alarm flags; <<initial, critical>>
FlagsAfterMovement(ias, cas) ==
    IF ias \/ cas THEN <<FALSE, FALSE>> ELSE <<ias, cas>>

\* lines 102-117: status "1" processed at time t
OnPresence(s, t) ==
    LET f == FlagsAfterMovement(s.initial_alarm_sent, s.critical_alarm_sent)
    IN  [s EXCEPT !.presence_detected = TRUE,
                  !.last_presence_time = t,
                  !.last_movement_time =
                      MovementTime(s.presence_detected, s.last_movement_time, t),
                  !.initial_alarm_sent = f[1],
                  !.critical_alarm_sent = f[2]]

\* a variant that also forgets the time of the last Critical alert
OnAbsence_ResetCooldown(s) ==
    IF s.presence_detected
    THEN [s EXCEPT !.presence_detected = FALSE,
                   !.initial_alarm_sent = FALSE,
                   !.critical_alarm_sent = FALSE,
                   !.last_critical_alert_time = 0]
    ELSE s

\* a variant that forgets the alarm flags when presence ends
OnAbsence_KeepFlags(s) ==
    IF s.presence_detected
    THEN [s EXCEPT !.presence_detected = FALSE]
    ELSE s

\* lines 119-126: status "0"
OnAbsence(s) ==
    IF s.presence_detected
    THEN [s EXCEPT !.presence_detected = FALSE,
                   !.initial_alarm_sent = FALSE,
                   !.critical_alarm_sent = FALSE]
    ELSE s

\* lines 98-126: the effect of the line d, read at time t, on the session
OnLine(s, d, t) ==
    IF ~StartsWithMarker(d) THEN s
    ELSE IF StatusOf(d) = <<"1">> THEN OnPresence(s, t)
    ELSE IF StatusOf(d) = <<"0">> THEN OnAbsence(s)
    ELSE s

\* lines 104, 115, 121: what the line makes the loop log, in order
LogOf(s, d) ==
    IF ~StartsWithMarker(d) THEN << >>
    ELSE IF StatusOf(d) = <<"1">>
         THEN (IF s.presence_detected THEN << >> ELSE <<"Presence detected">>)
              \o (IF s.initial_alarm_sent \/ s.critical_alarm_sent
                  THEN <<"Movement detected - resetting alarm status">>
                  ELSE << >>)
    ELSE IF StatusOf(d) = <<"0">> /\ s.presence_detected
         THEN <<"No presence detected">>
    ELSE << >>

\* lines 98-100: current_time after the line d was read at time t
TimeAfterLine(ct, d, t) == IF StartsWithMarker(d) THEN t ELSE ct

\* lines 102-117, statement by statement: the session and the log a
\* KeyboardInterrupt finds when it arrives inside the handling of a status
\* "1" line read at time t, before line 117 has run
PresenceCuts(s, t) ==
    LET l1 == IF s.presence_detected THEN << >> ELSE <<"Presence detected">>
        s1 == [s EXCEPT !.presence_detected = TRUE]
        s2 == [s1 EXCEPT !.last_presence_time = t]
        s3 == [s2 EXCEPT !.last_movement_time =
                  MovementTime(s.presence_detected, s.last_movement_time, t)]
        f  == FlagsAfterMovement(s.initial_alarm_sent, s.critical_alarm_sent)
        l2 == IF s.initial_alarm_sent \/ s.critical_alarm_sent
              THEN Append(l1, "Movement detected - resetting alarm status")
              ELSE l1
        s4 == [s3 EXCEPT !.initial_alarm_sent = f[1]]
    IN  { [session |-> s,  log |-> << >>],     \* before line 103
          [session |-> s,  log |-> l1],        \* after line 104
          [session |-> s1, log |-> l1],        \* after line 105
          [session |-> s2, log |-> l1],        \* after line 108
          [session |-> s3, log |-> l1],        \* after line 111
          [session |-> s3, log |-> l2],        \* after line 115
          [session |-> s4, log |-> l2] }       \* after line 116

\* lines 119-126, statement by statement: the same for a status "0" line,
\* before line 126 has run
AbsenceCuts(s) ==
    IF ~s.presence_detected THEN { [session |-> s, log |-> << >>] }
    ELSE LET l  == <<"No presence detected">>
             s1 == [s EXCEPT !.presence_detected = FALSE]
             s2 == [s1 EXCEPT !.initial_alarm_sent = FALSE]
         IN  { [session |-> s,  log |-> << >>],    \* before line 121
               [session |-> s,  log |-> l],        \* after line 121
               [session |-> s1, log |-> l],        \* after line 122
               [session |-> s2, log |-> l] }       \* after line 125

\* lines 95-132: what a KeyboardInterrupt finds when it arrives in the
\* iteration that read the line d at time t, after line 95 and before the
\* iteration calls send_email_alert or ends; ct is current_time before
LineCuts(s, d, ct, t) ==
    LET at(c, time) == [session |-> c.session, log |-> c.log,
                        current_time |-> time]
    IN  { at([session |-> s, log |-> << >>], ct) }      \* before line 100
        \cup (IF ~StartsWithMarker(d) THEN {}
              ELSE IF StatusOf(d) = <<"1">>
                   THEN {at(c, t) : c \in PresenceCuts(s, t)}
              ELSE IF StatusOf(d) = <<"0">>
                   THEN {at(c, t) : c \in AbsenceCuts(s)}
              ELSE { at([session |-> s, log |-> << >>], t) })

-----------------------------------------------------------------------------
(* The tiered alerting of lines 129-160 *)

\* a variant that alerts whether or not anyone is present
AlertingActive_Always(pd) == TRUE

\* line 132
AlertingActive(pd) == pd

\* a variant without the debounce flag
InitialDue_NoDebounce(tsm, ias) == tsm > Secs(INITIAL_ALARM_THRESHOLD)

\* a variant that fires at the threshold instead of after it
InitialDue_AtThreshold(tsm, ias) == tsm >= Secs(INITIAL_ALARM_THRESHOLD) /\ ~ias

\* line 134
InitialDue(tsm, ias) == tsm > Secs(INITIAL_ALARM_THRESHOLD) /\ ~ias

\* a variant that never repeats the Critical alert
CriticalDue_Once(tsm, cas, ct, lcat) == tsm > Secs(NO_MOTION_THRESHOLD) /\ ~cas

\* lines 148-149
CriticalDue(tsm, cas, ct, lcat) ==
    /\ tsm > Secs(NO_MOTION_THRESHOLD)
    /\ (~cas \/ ct - lcat > Secs(CRITICAL_COOLDOWN))

\* lines 135-137, 150-153: the alert of a tier; time_since_movement is tsm
Alert(tier, tsm) == [tier |-> tier, elapsed_seconds |-> IntSeconds(tsm)]

\* lines 132, 134 with current_time = ct
InitialCheck(s, ct) ==
    /\ AlertingActive(s.presence_detected)
    /\ InitialDue(ct - s.last_movement_time, s.initial_alarm_sent)

\* lines 132, 148-149 with current_time = ct
CriticalCheck(s, ct) ==
    /\ AlertingActive(s.presence_detected)
    /\ CriticalDue(ct - s.last_movement_time, s.critical_alarm_sent, ct,
                   s.last_critical_alert_time)

\* lines 132-154: the first call of send_email_alert of an iteration, as the
\* sequence of the tier sent; empty when the iteration sends nothing
FirstSend(s, ct) ==
    IF InitialCheck(s, ct) THEN <<"Initial">>
    ELSE IF CriticalCheck(s, ct) THEN <<"Critical">>
    ELSE << >>

\* a variant with elif in the place of the second if: one alert an iteration
NextSend_Never(s, tier, ct) == << >>

\* lines 144-154: what follows the send of a tier once it returned and its
\* flag is set; the Critical check is made after the Initial block
NextSend(s, tier, ct) ==
    IF tier = "Initial" /\ CriticalCheck(s, ct) THEN <<"Critical">> ELSE << >>

\* a variant that records the alarm only when the mail went out
FlagAfterSend_OnlyIfSent(sent) == sent

\* lines 144, 159: the flag is set whatever send_email_alert returned
FlagAfterSend(sent) == TRUE

\* lines 144, 159-160: the session after the send of a tier returned sent,
\* in an iteration with current_time = ct
AfterSend(s, tier, ct, sent) ==
    IF tier = "Initial"
    THEN [s EXCEPT !.initial_alarm_sent = FlagAfterSend(sent)]
    ELSE [s EXCEPT !.critical_alarm_sent = FlagAfterSend(sent),
                   !.last_critical_alert_time = ct]

\* lines 139-160: the session a KeyboardInterrupt finds when it arrives
\* after the send of a tier returned sent and before the iteration calls
\* send_email_alert again or ends
SendCuts(s, tier, ct, sent) ==
    IF tier = "Initial"
    THEN { s,                                        \* before line 144
           AfterSend(s, tier, ct, sent) }            \* before line 154
    ELSE { s,                                        \* before line 159
           [s EXCEPT !.critical_alarm_sent = FlagAfterSend(sent)] }
                                                     \* before line 160

\* send_email_alert, lines 48-78: True when the mail went out, False when
\* the configuration is incomplete or the transport raised
SendEmailAlert(configured, transport_ok) == configured /\ transport_ok

\* lines 53, 74, 77: what send_email_alert logs
SendLog(configured, transport_ok) ==
    IF ~configured
    THEN "Email configuration incomplete. Check your .env file."
    ELSE IF transport_ok THEN "Email alert sent"
    ELSE "Failed to send email"

\* lines 52-54, 66-72: an incomplete configuration returns at once, the
\* SMTP conversation takes its time
SendDuration(configured) == IF configured THEN SendTimes ELSE {0}

\* line 63: send_email_alert stamps the alert with the clock it reads, t
Stamped(a, t) ==
    [tier |-> a.tier, elapsed_seconds |-> a.elapsed_seconds, time |-> t]

-----------------------------------------------------------------------------
(* State machine *)

SetSession(s) ==
    /\ presence_detected' = s.presence_detected
    /\ last_movement_time' = s.last_movement_time
    /\ last_presence_time' = s.last_presence_time
    /\ initial_alarm_sent' = s.initial_alarm_sent
    /\ critical_alarm_sent' = s.critical_alarm_sent
    /\ last_critical_alert_time' = s.last_critical_alert_time

\* the tier of the alert the loop is sending (lines 139, 154)
Sending == alerts[Len(alerts)].tier

Init ==
    /\ pc = "setup"
    /\ ser_open = FALSE
    /\ close_count = 0
    /\ now = Secs(StartTime)
    /\ iterations = 0
    /\ data = NoLine
    /\ current_time = Unbound
    /\ presence_detected = FALSE
    /\ last_movement_time = Secs(StartTime)
    /\ last_presence_time = Secs(StartTime)
    /\ initial_alarm_sent = FALSE
    /\ critical_alarm_sent = FALSE
    /\ last_critical_alert_time = 0
    /\ alerts = << >>
    /\ log = << >>
    /\ delivering = FALSE
    /\ email_configured \in BOOLEAN

\* main, lines 175-181: monitoring starts only with an open port
AfterSetup(opened) == IF opened THEN "loop" ELSE "no_sensor"

\* main, lines 174-177 with setup_radar succeeding, then lines 83-90
SetupOk ==
    /\ pc = "setup"
    /\ pc' = AfterSetup(TRUE)
    /\ ser_open' = TRUE
    /\ SetSession(NewSession(now))
    /\ UNCHANGED <<close_count, now, iterations, data, current_time, alerts,
                   log, delivering, email_configured>>

\* a KeyboardInterrupt before the loop's try (line 92) or before main
\* returns without a port: inside setup_radar before the port is open (line
\* 39), after the open has failed and line 44 has logged it (lines 44-45,
\* 174-175, 180), after line 181 has logged as well and before main returns,
\* with the port open and main not yet in its try (lines 40-41, 174-176),
\* or in lines 83-90.  Nothing catches it; only in the last case does main's
\* finally run.
SetupInterrupted(where) ==
    /\ pc = "setup"
    /\ pc' = IF where = "monitoring" THEN "crashed" ELSE "interrupted"
    /\ ser_open' = (where \in {"main", "monitoring"})
    /\ log' = CASE where = "open_failed" -> <<"Error connecting to radar">>
                [] where = "failure_logged" ->
                       <<"Error connecting to radar",
                         "Failed to connect to radar sensor">>
                [] OTHER -> log
    /\ UNCHANGED <<close_count, now, iterations, data, current_time,
                   session, alerts, delivering, email_configured>>

\* main, lines 174, 180-181 with setup_radar returning None (lines 43-45);
\* main then returns
SetupFail ==
    /\ pc = "setup"
    /\ pc' = AfterSetup(FALSE)
    /\ log' = <<"Error connecting to radar",
                "Failed to connect to radar sensor">>
    /\ UNCHANGED <<ser_open, close_count, now, iterations, data,
                   current_time, session, alerts, delivering,
                   email_configured>>

\* lines 93-94, 162: an iteration that finds nothing waiting on the port,
\* d ticks after the previous one
IterNoFrame(d) ==
    /\ pc = "loop"
    /\ ~delivering
    /\ iterations < MaxIter
    /\ now' = now + d
    /\ iterations' = iterations + 1
    /\ data' = NoLine
    /\ log' = << >>
    /\ UNCHANGED <<pc, ser_open, close_count, current_time, session, alerts,
                   delivering, email_configured>>

\* lines 93-95: an iteration in which ser.in_waiting or ser.readline()
\* raises (the port went away), d ticks after the previous one; line 164
\* does not catch the exception, which leaves the loop
IterSerialError(d) ==
    /\ pc = "loop"
    /\ ~delivering
    /\ iterations < MaxIter
    /\ now' = now + d
    /\ iterations' = iterations + 1
    /\ data' = NoLine
    /\ log' = << >>
    /\ pc' = "crashed"
    /\ UNCHANGED <<ser_open, close_count, current_time, session, alerts,
                   delivering, email_configured>>

\* lines 93-139, 148-154, 162: an iteration that reads the line raw, d ticks
\* after the previous one, up to its first call of send_email_alert, or to
\* its end when it sends nothing
IterFrame(d, raw) ==
    /\ pc = "loop"
    /\ ~delivering
    /\ iterations < MaxIter
    /\ now' = now + d
    /\ iterations' = iterations + 1
    /\ data' = Strip(raw)
    /\ current_time' = TimeAfterLine(current_time, data', now')
    /\ SetSession(OnLine(Current, data', now'))
    /\ log' = LogOf(Current, data')
    /\ IF current_time' = Unbound
       THEN \* line 129 raises UnboundLocalError, which line 164 does not catch
            /\ pc' = "crashed"
            /\ alerts' = alerts
            /\ delivering' = FALSE
       ELSE LET s1 == OnLine(Current, data', now')
                first == FirstSend(s1, current_time')
                tsm == current_time' - s1.last_movement_time
            IN  /\ pc' = pc
                /\ alerts' = alerts \o
                      [i \in 1..Len(first) |-> Stamped(Alert(first[i], tsm), now')]
                /\ delivering' = (first # << >>)
    /\ UNCHANGED <<ser_open, close_count, email_configured>>

\* lines 50-78, then 144-154 or 159-162: the call of send_email_alert the
\* loop is in returns after d ticks, the transport having worked or not; the
\* flag of the tier is set; after the Initial alert the Critical check is
\* made, and either the Critical alert is sent or the iteration ends
SendReturn(d, transport_ok) ==
    /\ pc = "loop"
    /\ delivering
    /\ d \in SendDuration(email_configured)
    /\ now' = now + d
    /\ log' = Append(log, SendLog(email_configured, transport_ok))
    /\ LET sent == SendEmailAlert(email_configured, transport_ok)
           s1 == AfterSend(Current, Sending, current_time, sent)
           next == NextSend(s1, Sending, current_time)
           tsm == current_time - s1.last_movement_time
       IN  /\ SetSession(s1)
           /\ alerts' = alerts \o
                 [i \in 1..Len(next) |-> Stamped(Alert(next[i], tsm), now')]
           /\ delivering' = (next # << >>)
    /\ UNCHANGED <<pc, ser_open, close_count, iterations, data,
                   current_time, email_configured>>

\* lines 164-165: the user interrupts the loop between two iterations, or
\* d ticks into a call of send_email_alert, whose except clause (line 76)
\* does not catch KeyboardInterrupt: the flag of the alert being sent stays
\* as it was
Interrupt(d) ==
    /\ pc = "loop"
    /\ d \in (IF delivering THEN SendDuration(email_configured) ELSE {0})
    /\ now' = now + d
    /\ pc' = "stopped"
    /\ delivering' = FALSE
    /\ UNCHANGED <<ser_open, close_count, iterations, data,
                   current_time, session, alerts, log, email_configured>>

\* lines 93-132, 164-165: the user interrupts the iteration that reads the
\* line raw, d ticks after the previous one, somewhere after line 95 and
\* before it would call send_email_alert or end: the statements before the
\* interrupt have run, the others have not
IterInterrupted(d, raw) ==
    /\ pc = "loop"
    /\ ~delivering
    /\ iterations < MaxIter
    /\ now' = now + d
    /\ iterations' = iterations + 1
    /\ data' = Strip(raw)
    /\ \E c \in LineCuts(Current, data', current_time, now') :
          /\ current_time' = c.current_time
          /\ SetSession(c.session)
          /\ log' = c.log
    /\ pc' = "stopped"
    /\ UNCHANGED <<ser_open, close_count, alerts, delivering,
                   email_configured>>

\* lines 50-78, 144-160, 164-165: the call of send_email_alert the loop is
\* in returns after d ticks and the user interrupts the loop before it
\* calls send_email_alert again or ends the iteration
SendInterrupted(d, transport_ok) ==
    /\ pc = "loop"
    /\ delivering
    /\ d \in SendDuration(email_configured)
    /\ now' = now + d
    /\ log' = Append(log, SendLog(email_configured, transport_ok))
    /\ \E c \in SendCuts(Current, Sending, current_time,
                          SendEmailAlert(email_configured, transport_ok)) :
          SetSession(c)
    /\ pc' = "stopped"
    /\ delivering' = FALSE
    /\ UNCHANGED <<ser_open, close_count, iterations, data, current_time,
                   alerts, email_configured>>

\* lines 164-165: a KeyboardInterrupt that arrives while the handler of
\* the first one runs leaves vital_sign_monitoring as an exception
HandlerInterrupted ==
    /\ pc = "stopped"
    /\ pc' = "crashed"
    /\ UNCHANGED <<ser_open, close_count, now, iterations, data,
                   current_time, session, alerts, log, delivering,
                   email_configured>>

\* lines 176-179: the finally clause runs when vital_sign_monitoring
\* returns and when an exception leaves it
ReleasesOn(p) == p \in {"stopped", "crashed"}

\* lines 178-179: main's finally clause closes the port; main then returns,
\* or is left by the exception that ended the loop or by a KeyboardInterrupt
\* that arrives after line 179 (interrupted)
Close(interrupted) ==
    /\ ReleasesOn(pc)
    /\ pc' = IF pc = "stopped" /\ ~interrupted THEN "exited" ELSE "aborted"
    /\ ser_open' = FALSE
    /\ close_count' = close_count + 1
    /\ UNCHANGED <<now, iterations, data, current_time, session,
                   alerts, log, delivering, email_configured>>

\* lines 176-179: a KeyboardInterrupt that arrives in main's finally clause
\* before line 179 has run: main is left with ser.close() never called
CloseInterrupted ==
    /\ ReleasesOn(pc)
    /\ pc' = "unreleased"
    /\ UNCHANGED <<ser_open, close_count, now, iterations, data,
                   current_time, session, alerts, log, delivering,
                   email_configured>>

Next ==
    \/ SetupOk
    \/ SetupFail
    \/ \E where \in {"setup_radar", "open_failed", "failure_logged", "main",
                     "monitoring"} :
          SetupInterrupted(where)
    \/ \E d \in Deltas : IterNoFrame(d)
    \/ \E d \in Deltas : IterSerialError(d)
    \/ \E d \in Deltas, raw \in RawLines : IterFrame(d, raw)
    \/ \E d \in SendTimes, transport_ok \in BOOLEAN : SendReturn(d, transport_ok)
    \/ \E d \in SendTimes : Interrupt(d)
    \/ \E d \in Deltas, raw \in RawLines : IterInterrupted(d, raw)
    \/ \E d \in SendTimes, transport_ok \in BOOLEAN :
          SendInterrupted(d, transport_ok)
    \/ HandlerInterrupted
    \/ \E interrupted \in BOOLEAN : Close(interrupted)
    \/ CloseInterrupted

\* No fairness is assumed: the program may be interrupted at any point and
\* nothing obliges the release of the port to happen; every property below
\* is a safety property of the finite runs.
Spec == Init /\ [][Next]_vars

-----------------------------------------------------------------------------
(* Vocabulary of the properties *)

\* the step is the beginning of a loop iteration
Iterated == iterations' = iterations + 1

\* the step is a loop iteration that no interrupt cuts short before its
\* first call of send_email_alert or its end
Processed == Iterated /\ pc' = "loop"

\* the step is the return of a call of send_email_alert into the loop
SendReturned == iterations' = iterations /\ delivering /\ pc' = "loop"

\* the line d is the marker followed by the status c
IsStatus(d, c) == StartsWithMarker(d) /\ StatusOf(d) = <<c>>

\* the line d carries no presence signal
NoSignal(d) == ~IsStatus(d, "1") /\ ~IsStatus(d, "0")

\* the alerts of tier t among the alerts as
OfTier(as, t) == {i \in 1..Len(as) : as[i].tier = t}

\* the alerts the step emits
NewAlerts == SubSeq(alerts', Len(alerts) + 1, Len(alerts'))

\* the step emits the alert of tier t and nothing else
EmitsOnly(t) == Len(NewAlerts) = 1 /\ NewAlerts[1].tier = t

\* the message m is in the log of the last iteration
InLog(m) == \E i \in 1..Len(log) : log[i] = m

\* what send_email_alert logs when it returns False
FailureLogs == {"Failed to send email",
                "Email configuration incomplete. Check your .env file."}

\* the call of send_email_alert that returns in the step returns False
SendFailed == SendReturned /\ log'[Len(log')] \in FailureLogs

\* the last iteration read a marker line, so evaluated the escalation with
\* the time it ran at, and is over
Evaluated ==
    pc = "loop" /\ iterations > 0 /\ StartsWithMarker(data) /\ ~delivering

\* the alerts emitted since the last marker line was read
AlertsOfEvaluation == SelectSeq(alerts, LAMBDA a : a.time >= current_time)

\* the loop begins an iteration
IterationStep ==
    \/ \E d \in Deltas : IterNoFrame(d)
    \/ \E d \in Deltas : IterSerialError(d)
    \/ \E d \in Deltas, raw \in RawLines : IterFrame(d, raw)
    \/ \E d \in Deltas, raw \in RawLines : IterInterrupted(d, raw)

\* the loop takes a step
LoopStep ==
    \/ IterationStep
    \/ \E d \in SendTimes, transport_ok \in BOOLEAN : SendReturn(d, transport_ok)
    \/ \E d \in SendTimes, transport_ok \in BOOLEAN :
          SendInterrupted(d, transport_ok)

-----------------------------------------------------------------------------
(* C1: the escalation check runs in every loop iteration, with or without a
   frame: the first iteration that finds a present subject more than
   INITIAL_ALARM_THRESHOLD after the last presence=1 signal emits exactly one
   Initial alert carrying int(now - t0), and, the Initial alert raised, the
   first one more than NO_MOTION_THRESHOLD after it emits exactly one
   Critical alert. *)
C1_EscalationEveryIteration ==
    [][ Iterated /\ pc' = "loop" /\ presence_detected' =>
          /\ ( ~initial_alarm_sent
               /\ now' - last_movement_time' > Secs(INITIAL_ALARM_THRESHOLD)
               => /\ EmitsOnly("Initial")
                  /\ NewAlerts[1].elapsed_seconds =
                         IntSeconds(now' - last_movement_time') )
          /\ ( initial_alarm_sent /\ ~critical_alarm_sent
               /\ now' - last_movement_time' > Secs(NO_MOTION_THRESHOLD)
               => EmitsOnly("Critical") ) ]_vars

(* C2: no alert is emitted while presence_detected is false: a step that
   hands an alert to send_email_alert starts and ends with presence_detected
   true, and presence_detected holds for as long as the loop is in that
   call. *)
C2_NoAlertWithoutPresence ==
    [][ /\ (alerts' # alerts => presence_detected /\ presence_detected')
        /\ (delivering' => presence_detected') ]_vars

\* an evaluation long after the last movement, nobody present, emitted nothing
C2_Witness ==
    /\ Evaluated
    /\ NoSignal(data)
    /\ ~presence_detected
    /\ current_time - last_movement_time > Secs(NO_MOTION_THRESHOLD)
    /\ alerts = << >>

(* C3: Critical cooldown: of two Critical alerts emitted one after the other
   with no presence=1 or presence=0 signal in between, the second one is
   emitted more than CRITICAL_COOLDOWN after the first one. *)
C3_CriticalCooldown ==
    presence_detected =>
       \A i, j \in OfTier(alerts, "Critical") :
          i < j /\ alerts[i].time > last_movement_time
            => alerts[j].time - alerts[i].time > Secs(CRITICAL_COOLDOWN)

(* C4: Critical re-fire: an iteration that reads a line without a presence
   signal with critical_alarm_sent already set, at a time more than
   NO_MOTION_THRESHOLD after last_movement_time and more than
   CRITICAL_COOLDOWN after last_critical_alert_time, emits one more Critical
   alert and nothing else; when the send of a Critical alert returns,
   critical_alarm_sent is set and last_critical_alert_time is the time of
   that evaluation. *)
C4_CriticalRefire ==
    [][ /\ ( /\ Iterated
             /\ pc' = "loop"
             /\ data' # NoLine
             /\ NoSignal(data')
             /\ critical_alarm_sent
             /\ current_time' - last_movement_time > Secs(NO_MOTION_THRESHOLD)
             /\ current_time' - last_critical_alert_time
                   > Secs(CRITICAL_COOLDOWN)
             => EmitsOnly("Critical") /\ delivering' )
        /\ ( SendReturned /\ Sending = "Critical"
             => /\ critical_alarm_sent'
                /\ last_critical_alert_time' = current_time' ) ]_vars

\* two Critical alerts since the last movement, the second one by the last
\* evaluation
C4_Witness ==
    /\ Evaluated
    /\ critical_alarm_sent
    /\ last_critical_alert_time = current_time
    /\ \E i \in OfTier(alerts, "Critical") :
          /\ alerts[i].time > last_movement_time
          /\ alerts[i].time < current_time
    /\ OfTier(AlertsOfEvaluation, "Critical") # {}

(* C5: Initial debounce: no Initial alert is emitted while initial_alarm_sent
   is set, nor while the loop is still in the send of one; the flag is set
   when that send returns; and the flag is only cleared by a presence=1
   signal or by a presence=0 signal that ends the presence. *)
C5_InitialDebounce ==
    [][ /\ (initial_alarm_sent => OfTier(NewAlerts, "Initial") = {})
        /\ (delivering => OfTier(NewAlerts, "Initial") = {})
        /\ (SendReturned /\ Sending = "Initial" => initial_alarm_sent')
        /\ (initial_alarm_sent /\ ~initial_alarm_sent'
              => /\ Iterated
                 /\ \/ IsStatus(data', "1")
                    \/ IsStatus(data', "0") /\ presence_detected
                       /\ ~presence_detected') ]_vars

\* an evaluation after the Initial alert of the episode, still over the
\* threshold, emitted nothing
C5_Witness ==
    /\ Evaluated
    /\ NoSignal(data)
    /\ initial_alarm_sent
    /\ presence_detected
    /\ AlertsOfEvaluation = << >>
    /\ \E i \in OfTier(alerts, "Initial") :
          alerts[i].time > last_movement_time

(* C6: movement cancels escalation: an iteration that processes a presence=1
   signal while either alarm flag is set, and runs to its end, ends with
   both flags clear and presence_detected true, and sends nothing. *)
C6_MovementCancels ==
    [][ /\ Processed
        /\ IsStatus(data', "1")
        /\ (initial_alarm_sent \/ critical_alarm_sent)
        => /\ ~initial_alarm_sent'
           /\ ~critical_alarm_sent'
           /\ presence_detected'
           /\ ~delivering' ]_vars

\* a presence=1 signal has just reset an alarm
C6_Witness ==
    /\ IsStatus(data, "1")
    /\ InLog("Movement detected - resetting alarm status")
    /\ alerts # << >>

(* C7: absence resets: an iteration that processes a presence=0 signal while
   presence_detected is true, and runs to its end, clears presence_detected
   and both alarm flags, and as long as no presence=1 signal is read
   presence_detected stays false, the flags stay clear and no alert is
   emitted. *)
C7_AbsenceResets ==
    [][ /\ ( Processed /\ IsStatus(data', "0") /\ presence_detected
             => /\ ~presence_detected'
                /\ ~initial_alarm_sent'
                /\ ~critical_alarm_sent'
                /\ NewAlerts = << >> )
        /\ ( ~presence_detected /\ ~initial_alarm_sent /\ ~critical_alarm_sent
             /\ ~(Iterated /\ IsStatus(data', "1"))
             => /\ ~presence_detected'
                /\ ~initial_alarm_sent'
                /\ ~critical_alarm_sent'
                /\ NewAlerts = << >> ) ]_vars

\* presence ended after an alert, and a later evaluation, long after the last
\* movement, emitted nothing
C7_Witness ==
    /\ Evaluated
    /\ NoSignal(data)
    /\ ~presence_detected
    /\ ~initial_alarm_sent
    /\ ~critical_alarm_sent
    /\ last_presence_time > Secs(StartTime)
    /\ current_time - last_movement_time > Secs(NO_MOTION_THRESHOLD)
    /\ alerts # << >>
    /\ AlertsOfEvaluation = << >>

(* C8: last_movement_time never decreases; an iteration that processes a
   presence=1 signal and runs to its end sets it to the time of that
   iteration, and no step other than the reading of a presence=1 signal
   changes it. *)
C8_MovementTimeMonotonic ==
    [][ /\ last_movement_time' >= last_movement_time
        /\ (Processed /\ IsStatus(data', "1") => last_movement_time' = now')
        /\ (last_movement_time' # last_movement_time
              => last_movement_time' = now')
        /\ (~(Iterated /\ IsStatus(data', "1"))
              => last_movement_time' = last_movement_time) ]_vars

\* a presence=1 signal processed while presence was already detected
C8_Witness ==
    /\ pc = "loop"
    /\ IsStatus(data, "1")
    /\ ~InLog("Presence detected")
    /\ last_movement_time = now
    /\ last_movement_time > Secs(StartTime) + 1

(* C9: a line that is not the marker followed by status "0" or "1" is
   ignored wherever it comes, the first line read included: reading it
   raises no error and the line changes neither presence_detected nor the
   movement and presence times. *)
C9_MalformedIgnored ==
    [][ Iterated /\ data' # NoLine /\ NoSignal(data')
          => /\ pc' # "crashed"
             /\ presence_detected' = presence_detected
             /\ last_movement_time' = last_movement_time
             /\ last_presence_time' = last_presence_time ]_vars

(* C10: movement resets the elapsed measurement: an Initial alert is only
   emitted at a time more than INITIAL_ALARM_THRESHOLD after the most recent
   presence=1 signal, a Critical alert only more than NO_MOTION_THRESHOLD
   after it, and the elapsed seconds the alert carries are over that
   threshold too. *)
C10_MovementResetsElapsed ==
    [][ \A i \in 1..Len(NewAlerts) :
          LET threshold == IF NewAlerts[i].tier = "Initial"
                           THEN INITIAL_ALARM_THRESHOLD
                           ELSE NO_MOTION_THRESHOLD
          IN  /\ NewAlerts[i].time = now'
              /\ now' - last_movement_time' > Secs(threshold)
              /\ NewAlerts[i].elapsed_seconds >= threshold
              /\ NewAlerts[i].elapsed_seconds =
                     IntSeconds(current_time' - last_movement_time') ]_vars

\* an Initial alert, a movement after it, and a second Initial alert more
\* than the threshold after that movement
C10_Witness ==
    /\ \E i \in OfTier(alerts, "Initial") : alerts[i].time < last_movement_time
    /\ \E i \in OfTier(alerts, "Initial") :
          alerts[i].time - last_movement_time > Secs(INITIAL_ALARM_THRESHOLD)
    /\ last_movement_time > Secs(StartTime)

(* C11: dispatch failure is recoverable: when a call of send_email_alert
   returns False (configuration incomplete, or the transport raised) the
   loop goes on, the flag of the alert is set, and last_critical_alert_time
   is the time of the evaluation for a Critical alert; the iterations after
   it emit no Initial alert while initial_alarm_sent is set, and a Critical
   alert with critical_alarm_sent set only after the cooldown. *)
C11_DispatchFailureRecoverable ==
    [][ /\ ( SendFailed
             => /\ pc' = "loop"
                /\ (Sending = "Initial" => initial_alarm_sent')
                /\ (Sending = "Critical"
                      => /\ critical_alarm_sent'
                         /\ last_critical_alert_time' = current_time') )
        /\ ( Iterated /\ (\E m \in FailureLogs : InLog(m))
             => /\ (initial_alarm_sent => OfTier(NewAlerts, "Initial") = {})
                /\ (critical_alarm_sent /\ OfTier(NewAlerts, "Critical") # {}
                      => current_time' - last_critical_alert_time
                            > Secs(CRITICAL_COOLDOWN)) ) ]_vars

\* both alerts were emitted, the transport failed for both, both flags are
\* set
C11_Witness ==
    /\ Evaluated
    /\ log = <<"Failed to send email", "Failed to send email">>
    /\ OfTier(AlertsOfEvaluation, "Initial") # {}
    /\ OfTier(AlertsOfEvaluation, "Critical") # {}
    /\ initial_alarm_sent
    /\ critical_alarm_sent
    /\ last_critical_alert_time = current_time

\* main is over, having entered the monitoring
AfterMonitoring == pc \in {"exited", "aborted", "unreleased"}

(* C12: shutdown: however the loop ends, by an interrupt or by an error,
   the port is open until it is released, main is not left before the port
   has been released, the port is released exactly once, and once it is
   released the loop takes no step, so no frame is read and no alert
   emitted. *)
C12_ShutdownReleasesOnce ==
    /\ close_count <= 1
    /\ (pc \in {"loop", "stopped", "crashed"} => ser_open /\ close_count = 0)
    /\ (AfterMonitoring => ~ser_open /\ close_count = 1)
    /\ (close_count = 1 => AfterMonitoring /\ ~ENABLED LoopStep)

(* C13: dual fire: an iteration that reads a line without a presence signal
   and finds presence_detected true, both flags clear and the elapsed time
   above NO_MOTION_THRESHOLD sends the Initial alert; when that send returns
   initial_alarm_sent is set and the Critical alert is sent, in the same
   iteration; when that one returns critical_alarm_sent is set as well and
   the iteration sends nothing more. *)
C13_DualFireOrder ==
    [][ /\ ( /\ Iterated
             /\ pc' = "loop"
             /\ data' # NoLine
             /\ NoSignal(data')
             /\ presence_detected
             /\ ~initial_alarm_sent
             /\ ~critical_alarm_sent
             /\ current_time' - last_movement_time > Secs(NO_MOTION_THRESHOLD)
             => EmitsOnly("Initial") /\ delivering' )
        /\ ( /\ SendReturned
             /\ Sending = "Initial"
             /\ ~critical_alarm_sent
             /\ current_time - last_movement_time > Secs(NO_MOTION_THRESHOLD)
             => /\ initial_alarm_sent'
                /\ EmitsOnly("Critical")
                /\ delivering' )
        /\ ( SendReturned /\ Sending = "Critical"
             => /\ initial_alarm_sent' = initial_alarm_sent
                /\ critical_alarm_sent'
                /\ NewAlerts = << >>
                /\ ~delivering' ) ]_vars

\* the last iteration emitted the Initial and then the Critical alert
C13_Witness ==
    /\ Evaluated
    /\ Len(AlertsOfEvaluation) = 2
    /\ AlertsOfEvaluation[1].tier = "Initial"
    /\ AlertsOfEvaluation[2].tier = "Critical"
    /\ initial_alarm_sent
    /\ critical_alarm_sent

(* C14: every escalation evaluation measures the elapsed time from the time
   of that evaluation: after an iteration that read a line and went on,
   current_time is the time the iteration ran at, also when the line is an
   irrelevant one. *)
C14_ElapsedUsesEvaluationTime ==
    [][ Iterated /\ data' # NoLine /\ pc' = "loop"
          => current_time' = now' ]_vars

(* C15: a presence=0 signal changes none of last_movement_time,
   last_presence_time and last_critical_alert_time, and processed while
   presence_detected is false it changes no session field. *)
C15_AbsenceFrame ==
    [][ Iterated /\ IsStatus(data', "0")
          => /\ last_movement_time' = last_movement_time
             /\ last_presence_time' = last_presence_time
             /\ last_critical_alert_time' = last_critical_alert_time
             /\ (~presence_detected => UNCHANGED session) ]_vars

\* a presence=0 signal processed with nobody present, after an episode that
\* had reached the Critical alert
C15_Witness ==
    /\ pc = "loop"
    /\ IsStatus(data, "0")
    /\ ~InLog("No presence detected")
    /\ ~presence_detected
    /\ last_critical_alert_time > 0

(* C16: alert delivery does not delay escalation: while a delivery is in
   progress the loop can begin its next iteration. *)
C16_DeliveryDecoupled ==
    pc = "loop" /\ delivering /\ iterations < MaxIter => ENABLED IterationStep

\* main has returned normally
ReturnedNormally == pc \in {"exited", "no_sensor"}

(* C17: connectivity failure: once the open of the port has failed the port
   is not open, the loop is never entered, no frame is read, no alert is
   emitted, the open is not tried again, and main does not return normally:
   the failure reaches its caller. *)
C17_ConnectivityFailure ==
    InLog("Error connecting to radar")
      => /\ ~ser_open
         /\ close_count = 0
         /\ iterations = 0
         /\ data = NoLine
         /\ alerts = << >>
         /\ ~ENABLED SetupOk
         /\ ~ENABLED LoopStep
         /\ ~ReturnedNormally

(* C18: in every reachable state critical_alarm_sent implies
   initial_alarm_sent. *)
C18_CriticalImpliesInitial == critical_alarm_sent => initial_alarm_sent

(* C19: in every reachable state an alarm flag is only set while
   presence_detected is true. *)
C19_FlagsImplyPresence ==
    initial_alarm_sent \/ critical_alarm_sent => presence_detected

(* C20: an iteration that finds no frame waiting changes no session field
   and emits no alert; an iteration that processes status "1" or "0" emits
   no alert and makes no call of send_email_alert; so every alert is emitted
   in an iteration that read a line which is neither. *)
C20_AlertsOnlyOnOtherLines ==
    [][ /\ (Iterated /\ data' = NoLine
              => UNCHANGED session /\ NewAlerts = << >> /\ ~delivering')
        /\ (Iterated /\ ~NoSignal(data')
              => NewAlerts = << >> /\ ~delivering')
        /\ (alerts' # alerts => data' # NoLine /\ NoSignal(data')) ]_vars

\* an iteration without a frame, the subject motionless for longer than the
\* Initial threshold and no alert raised yet: nothing is emitted
C20_Witness ==
    /\ pc = "loop"
    /\ iterations > 0
    /\ data = NoLine
    /\ presence_detected
    /\ ~initial_alarm_sent
    /\ now - last_movement_time > Secs(INITIAL_ALARM_THRESHOLD)
    /\ alerts = << >>

====
